---- MODULE Spec2Model ----
(***************************************************************************)
(* Verification model of multicriterio.py (class AHP).                     *)
(*                                                                         *)
(* Numbers.  A float is modelled by an exact rational <<n, d>> with d > 0; *)
(* <<0, 0>> is NaN (the result of 0/0).  A value rounded to `precisao`     *)
(* decimals is <<k, 10^precisao>>.  A vector is a sequence of numbers, a   *)
(* matrix a sequence of rows.                                              *)
(***************************************************************************)
EXTENDS Integers, Sequences, FiniteSets, TLC

VARIABLES
    pc,                     \* position of the running call
    metodo, precisao, alternativas, criterios, sub_criterios,
    matrizes_preferencias,  \* AHP.__init__ fields
    prioridades_globais,    \* AHP.prioridades_globais, the accumulator
    prioridades,            \* result of local_priority_vector
    usado,                  \* key -> name of the function local_priority_vector applied
    pilha,                  \* call stack of global_priority_vector
    ultimo,                 \* the last weight lookup of global_priority_vector
    visitados,              \* nodes global_priority_vector has processed
    chamadas,               \* number of resultado() calls started
    retorno,                \* value returned by the last finished call
    primeiro,               \* value returned by the first resultado() call
    matriz,                 \* argument of consistencia / autovalor
    interacao,              \* autovalor: remaining budget
    autovetor_anterior,     \* autovalor: previous estimate
    quadrados,              \* autovalor: number of matrix_power calls so far
    inicial                 \* autovalor: the arguments of the outermost call

vars == <<pc, metodo, precisao, alternativas, criterios, sub_criterios,
          matrizes_preferencias, prioridades_globais, prioridades, usado, pilha,
          ultimo, visitados, chamadas, retorno, primeiro, matriz, interacao,
          autovetor_anterior, quadrados, inicial>>

----------------------------------------------------------------------------
(* Bounds of the model *)

MaxPrecisao == 1
MaxOrdem == 16
MaxInteracao == 3
MaxChamadas == 2

----------------------------------------------------------------------------
(* Sequences, vectors and matrices *)

RECURSIVE SumSeq(_)
SumSeq(s) == IF s = <<>> THEN 0 ELSE Head(s) + SumSeq(Tail(s))

RECURSIVE ProdSeq(_)
ProdSeq(s) == IF s = <<>> THEN 1 ELSE Head(s) * ProdSeq(Tail(s))

RECURSIVE Pow(_, _)
Pow(b, e) == IF e = 0 THEN 1 ELSE b * Pow(b, e - 1)

Rows(m) == Len(m)
Cols(m) == IF Len(m) = 0 THEN 0 ELSE Len(m[1])
IsSquare(m) == Rows(m) = Cols(m)
Column(m, j) == [i \in 1..Rows(m) |-> m[i][j]]

Escala(p) == Pow(10, p)

(* Rational numbers, NaN = <<0, 0>> *)
NaN == <<0, 0>>
IsNaN(q) == q[2] = 0
Zero == <<0, 1>>
RSub(a, b) == IF IsNaN(a) \/ IsNaN(b) THEN NaN
              ELSE <<a[1] * b[2] - b[1] * a[2], a[2] * b[2]>>
RMul(a, b) == IF IsNaN(a) \/ IsNaN(b) THEN NaN ELSE <<a[1] * b[1], a[2] * b[2]>>
RAdd(a, b) == IF IsNaN(a) \/ IsNaN(b) THEN NaN
              ELSE IF a[2] = b[2] THEN <<a[1] + b[1], a[2]>>
              ELSE <<a[1] * b[2] + b[1] * a[2], a[2] * b[2]>>
RDiv(a, b) == IF IsNaN(a) \/ IsNaN(b) \/ b[1] = 0 THEN NaN
              ELSE IF b[1] > 0 THEN <<a[1] * b[2], a[2] * b[1]>>
              ELSE <<-(a[1] * b[2]), -(a[2] * b[1])>>
REq(a, b) == IF IsNaN(a) \/ IsNaN(b) THEN FALSE ELSE a[1] * b[2] = b[1] * a[2]

(* ndarray.round(precisao): round half to even, NaN stays NaN *)
Round(q, p) ==
    IF IsNaN(q) THEN NaN
    ELSE LET s == Escala(p)
             n == q[1] * s
             k == n \div q[2]
             r == n % q[2]
         IN  IF 2 * r < q[2] THEN <<k, s>>
             ELSE IF 2 * r > q[2] THEN <<k + 1, s>>
             ELSE IF k % 2 = 0 THEN <<k, s>> ELSE <<k + 1, s>>

RoundVec(v, p) == [i \in 1..Len(v) |-> Round(v[i], p)]

(* np.any(v): an element is truthy when it is not 0; NaN is truthy *)
NpAny(v) == \E i \in 1..Len(v) : IsNaN(v[i]) \/ v[i][1] # 0


None == <<>>
Zeros(n) == [i \in 1..n |-> Zero]

----------------------------------------------------------------------------
(* AHP.consistencia *)

(* the dict randon_consist_index *)
randon_consist_index_sem15 ==
    (3 :> <<52, 100>>) @@ (4 :> <<89, 100>>) @@ (5 :> <<111, 100>>) @@
    (6 :> <<125, 100>>) @@ (7 :> <<135, 100>>) @@ (8 :> <<140, 100>>) @@
    (9 :> <<145, 100>>) @@ (10 :> <<149, 100>>) @@ (11 :> <<152, 100>>) @@
    (12 :> <<154, 100>>) @@ (13 :> <<156, 100>>) @@ (14 :> <<158, 100>>)

randon_consist_index ==
    (3 :> <<52, 100>>) @@ (4 :> <<89, 100>>) @@ (5 :> <<111, 100>>) @@
    (6 :> <<125, 100>>) @@ (7 :> <<135, 100>>) @@ (8 :> <<140, 100>>) @@
    (9 :> <<145, 100>>) @@ (10 :> <<149, 100>>) @@ (11 :> <<152, 100>>) @@
    (12 :> <<154, 100>>) @@ (13 :> <<156, 100>>) @@ (14 :> <<158, 100>>) @@
    (15 :> <<159, 100>>)

(* the matrices consistencia is run on: every entry c (MatrizConst), or d on
   the diagonal, u above it and 0 below it (MatrizTri) *)
MatrizConst(n, m, c) == [i \in 1..n |-> [j \in 1..m |-> c]]
MatrizTri(n, d, u) ==
    [i \in 1..n |-> [j \in 1..n |-> IF i = j THEN d ELSE IF i < j THEN u ELSE 0]]

IsTri(m) == \A i \in 1..Rows(m) : \A j \in 1..Cols(m) : i > j => m[i][j] = 0

Max(S) == CHOOSE x \in S : \A y \in S : y <= x

(* np.real(eigvals(matriz).max()) of a square matrix: the largest diagonal
   entry of a triangular matrix, n * c of the matrix with every entry c *)
eigvals_max(m) ==
    IF IsTri(m) THEN <<Max({m[i][i] : i \in 1..Rows(m)}), 1>>
    ELSE <<Rows(m) * m[1][1], 1>>

OrdemMaiorQue2Mut(m) == Rows(m) # 0 /\ Cols(m) >= 2

(* the condition of line 134: matriz.shape[0] and matriz.shape[1] > 2 *)
OrdemMaiorQue2(m) == Rows(m) # 0 /\ Cols(m) > 2

(* ri is the key looked up in randon_consist_index, 0 when there is no lookup *)
consistencia(m) ==
    IF OrdemMaiorQue2(m)
    THEN IF ~IsSquare(m)
         THEN [erro |-> "LinAlgError", lambda_max |-> NaN, consist_index |-> NaN,
               consist_ratio |-> NaN, ri |-> 0]
         ELSE LET lambda_max == eigvals_max(m)
                  consist_index == RDiv(RSub(lambda_max, <<Len(m), 1>>),
                                        <<Len(m) - 1, 1>>)
              IN  IF Len(m) \notin DOMAIN randon_consist_index
                  THEN [erro |-> "KeyError", lambda_max |-> lambda_max,
                        consist_index |-> consist_index, consist_ratio |-> NaN,
                        ri |-> Len(m)]
                  ELSE [erro |-> "", lambda_max |-> lambda_max,
                        consist_index |-> consist_index,
                        consist_ratio |->
                            RDiv(consist_index, randon_consist_index[Len(m)]),
                        ri |-> Len(m)]
    ELSE [erro |-> "", lambda_max |-> Zero, consist_index |-> Zero,
          consist_ratio |-> Zero, ri |-> 0]

----------------------------------------------------------------------------
(* AHP.autovalor *)

DefaultInteracao == 100

(* matrix_power(matriz, 2) of a square matrix *)
matrix_power2(m) ==
    [i \in 1..Rows(m) |-> [j \in 1..Rows(m) |->
        SumSeq([k \in 1..Rows(m) |-> m[i][k] * m[k][j]])]]

(* lines 100-102; the entries are never negative, so a total of 0 is 0/0 *)
autovetor_atual(mq) ==
    LET soma_linhas == [i \in 1..Rows(mq) |-> SumSeq(mq[i])]
        soma_coluna == SumSeq(soma_linhas)
    IN  [i \in 1..Rows(mq) |->
            IF soma_coluna = 0 THEN NaN ELSE <<soma_linhas[i], soma_coluna>>]

(* lines 104-107 *)
diferenca(atual, anterior, p) ==
    LET ant == IF anterior = None THEN Zeros(Len(atual)) ELSE anterior
    IN  RoundVec([i \in 1..Len(atual) |-> RSub(atual[i], ant[i])], p)

ContinuaMut(it) == it >= 0

(* the condition of line 114 on the decremented budget *)
Continua(it) == it > 0

(* one call of autovalor: what it returns, or the arguments of the call it makes *)
autovalor_chamada(m, p, it, anterior) ==
    IF ~IsSquare(m) THEN [fim |-> TRUE, erro |-> "LinAlgError", valor |-> <<>>]
    ELSE LET mq == matrix_power2(m)
             atual == autovetor_atual(mq)
         IN  IF ~NpAny(diferenca(atual, anterior, p))
             THEN [fim |-> TRUE, erro |-> "", valor |-> RoundVec(atual, p)]
             ELSE IF Continua(it - 1)
                  THEN [fim |-> FALSE, matriz |-> mq, interacao |-> it - 1,
                        autovetor_anterior |-> atual]
                  ELSE [fim |-> TRUE, erro |-> "", valor |-> RoundVec(atual, p)]

RECURSIVE autovalor(_, _, _, _)
autovalor(m, p, it, anterior) ==
    LET r == autovalor_chamada(m, p, it, anterior)
    IN  IF r.fim THEN [erro |-> r.erro, valor |-> r.valor]
        ELSE autovalor(r.matriz, p, r.interacao, r.autovetor_anterior)

----------------------------------------------------------------------------
(* AHP.aproximado and AHP.geometrico *)

RECURSIVE RSum(_)
RSum(v) == IF v = <<>> THEN Zero ELSE RAdd(Head(v), RSum(Tail(v)))

(* lines 54-58; a column of zeros divides 0 by 0 *)
aproximado(m, p) ==
    LET soma_colunas == [j \in 1..Cols(m) |-> SumSeq(Column(m, j))]
        matriz_norm == [i \in 1..Rows(m) |-> [j \in 1..Cols(m) |->
            IF soma_colunas[j] = 0 THEN NaN ELSE <<m[i][j], soma_colunas[j]>>]]
        media_linhas == [i \in 1..Rows(m) |->
            RDiv(RSum(matriz_norm[i]), <<Cols(m), 1>>)]
    IN  RoundVec(media_linhas, p)

(* x ** (1 / c) is computed in fixed point: the largest multiple of
   1/RaizEscala whose c-th power is at most x *)
RaizEscala == Pow(10, 2)

RECURSIVE Bissecao(_, _, _, _)
Bissecao(lo, hi, alvo, c) ==
    IF hi - lo <= 1 THEN lo
    ELSE LET mid == (lo + hi) \div 2
         IN  IF Pow(mid, c) <= alvo THEN Bissecao(mid, hi, alvo, c)
             ELSE Bissecao(lo, mid, alvo, c)

Raiz(x, c) == <<Bissecao(0, x * RaizEscala + 1, x * Pow(RaizEscala, c), c), RaizEscala>>

(* lines 76-79 *)
geometrico(m, p) ==
    LET media_geometrica == [i \in 1..Rows(m) |-> Raiz(ProdSeq(m[i]), Len(m[i]))]
        soma == RSum(media_geometrica)
    IN  RoundVec([i \in 1..Rows(m) |-> RDiv(media_geometrica[i], soma)], p)

----------------------------------------------------------------------------
(* AHP.local_priority_vector *)

(* the condition of line 165: matriz.shape[0] and matriz.shape[1] >= 2 *)
OrdemPeloMenos2(m) == Rows(m) # 0 /\ Cols(m) >= 2

(* lines 160-168: the name of the function applied to the matrix *)
selecionado(met, m) ==
    IF met = "aproximado" THEN "aproximado"
    ELSE IF met = "geometrico" THEN "geometrico"
    ELSE IF OrdemPeloMenos2(m) THEN "autovalor" ELSE "aproximado"

(* lines 159-172 for one key: the vector, or the exception raised *)
prioridades_locais(met, m, p) ==
    LET f == selecionado(met, m)
        r == IF f = "aproximado" THEN [erro |-> "", valor |-> aproximado(m, p)]
             ELSE IF f = "geometrico" THEN [erro |-> "", valor |-> geometrico(m, p)]
             ELSE autovalor(m, p, DefaultInteracao, None)
    IN  IF r.erro # "" THEN r
        ELSE [erro |-> consistencia(m).erro, valor |-> r.valor]

(* the order in which the dict matrizes_preferencias is iterated *)
Chaves == <<"criterios", "c1", "c2", "c3">>

RECURSIVE local_priority_vector_de(_, _, _, _)
local_priority_vector_de(ks, met, mats, p) ==
    IF ks = <<>> THEN [erro |-> "", vetor |-> <<>>, usado |-> <<>>]
    ELSE IF Head(ks) \notin DOMAIN mats
         THEN local_priority_vector_de(Tail(ks), met, mats, p)
         ELSE LET k == Head(ks)
                  r == prioridades_locais(met, mats[k], p)
                  u == k :> selecionado(met, mats[k])
              IN  IF r.erro # ""
                  THEN [erro |-> r.erro, vetor |-> <<>>, usado |-> u]
                  ELSE LET resto == local_priority_vector_de(Tail(ks), met, mats, p)
                       IN  [erro |-> resto.erro,
                            vetor |-> (k :> r.valor) @@ resto.vetor,
                            usado |-> u @@ resto.usado]

local_priority_vector(met, mats, p) == local_priority_vector_de(Chaves, met, mats, p)

----------------------------------------------------------------------------
(* The configurations AHP.__init__ is given *)

Nos == {"c1", "c2", "c3"}
Alternativas == <<"a1", "a2">>
(* 'autovalor' is what the callers pass for the power iteration; the code
   compares the selector with the first two names only *)
Metodos == {"aproximado", "geometrico", "autovalor"}

(* the hierarchies explored, as the pairs (criterios, sub_criterios): flat,
   nested to three levels, with a node under two parents, with an identifier
   listed twice, and with leaves whose sub_criterios entry is an empty list *)
Hierarquias ==
    { [criterios |-> <<"c1">>, sub_criterios |-> <<>>],
      [criterios |-> <<"c1", "c2">>, sub_criterios |-> <<>>],
      [criterios |-> <<"c1", "c2">>, sub_criterios |-> ("c2" :> <<>>)],
      [criterios |-> <<"c1", "c2">>, sub_criterios |-> ("c1" :> <<>>) @@ ("c2" :> <<>>)],
      [criterios |-> <<"c1", "c2">>, sub_criterios |-> ("c1" :> <<"c3">>)],
      [criterios |-> <<"c1", "c2">>, sub_criterios |-> ("c1" :> <<"c2", "c3">>)],
      [criterios |-> <<"c1">>, sub_criterios |-> ("c1" :> <<"c2">>) @@ ("c2" :> <<"c3">>)],
      [criterios |-> <<"c1", "c1">>, sub_criterios |-> <<>>] }

Range(s) == {s[i] : i \in 1..Len(s)}

RECURSIVE Alcancaveis(_, _, _)
Alcancaveis(S, sub, n) ==
    IF n = 0 THEN S
    ELSE Alcancaveis(S \cup UNION {Range(sub[c]) : c \in S \cap DOMAIN sub}, sub, n - 1)

NosDe(crit, sub) == Alcancaveis(Range(crit), sub, Cardinality(Nos))

(* the matrices supplied: square ones of order 1 and 2, and others *)
Catalogo ==
    { <<<<1>>>>,
      <<<<1, 1>>, <<1, 1>>>>,
      <<<<3, 3>>, <<1, 1>>>>,
      <<<<1, 2>>>>,
      <<<<1>>, <<1>>>>,
      <<<<1, 1, 1>>, <<1, 1, 1>>>> }

(* the number of items the matrix of key k compares: the criteria for the goal,
   the children of a node that has some, the alternatives of a leaf *)
Esperado(k, crit, sub) ==
    IF k = "criterios" THEN Len(crit)
    ELSE IF k \in DOMAIN sub /\ sub[k] # <<>> THEN Len(sub[k])
    ELSE Len(Alternativas)

BemDimensionada(m, k, crit, sub) == IsSquare(m) /\ Rows(m) = Esperado(k, crit, sub)

MalDimensionadas(mats, crit, sub) ==
    {k \in DOMAIN mats : ~BemDimensionada(mats[k], k, crit, sub)}

----------------------------------------------------------------------------
(* AHP.resultado on one instance, called MaxChamadas times *)

Index(s, x) == CHOOSE i \in 1..Len(s) : s[i] = x /\ \A j \in 1..(i - 1) : s[j] # x

ProximoMut(i) == i + 2

(* the for loop of line 199 moves to the next element *)
Proximo(i) == i + 1

Topo == pilha[Len(pilha)]

Init ==
    /\ pc = "inicio"
    /\ metodo \in Metodos
    /\ precisao \in 0..MaxPrecisao
    /\ alternativas = Alternativas
    /\ \E h \in Hierarquias :
            /\ criterios = h.criterios
            /\ sub_criterios = h.sub_criterios
    /\ matrizes_preferencias \in
            {mats \in [{"criterios"} \cup NosDe(criterios, sub_criterios) -> Catalogo] :
                Cardinality(MalDimensionadas(mats, criterios, sub_criterios)) <= 1}
    /\ prioridades_globais = <<>>
    /\ prioridades = <<>>
    /\ usado = <<>>
    /\ pilha = <<>>
    /\ ultimo = <<>>
    /\ visitados = {}
    /\ chamadas = 0
    /\ retorno = <<>>
    /\ primeiro = <<>>
    /\ matriz = <<>>
    /\ interacao = 0
    /\ autovetor_anterior = None
    /\ quadrados = 0
    /\ inicial = <<>>

Config == <<metodo, precisao, alternativas, criterios, sub_criterios,
            matrizes_preferencias>>
Aux == <<matriz, interacao, autovetor_anterior, quadrados, inicial>>

(* line 223 and the call of line 224 *)
LocalPriorityVector ==
    /\ pc = "inicio"
    /\ chamadas < MaxChamadas
    /\ chamadas' = chamadas + 1
    /\ LET r == local_priority_vector(metodo, matrizes_preferencias, precisao)
       IN  /\ usado' = r.usado
           /\ IF r.erro # ""
              THEN /\ pc' = "erro"
                   /\ retorno' = [erro |-> r.erro]
                   /\ UNCHANGED <<prioridades, pilha>>
              ELSE /\ pc' = "global"
                   /\ prioridades' = r.vetor
                   /\ pilha' = <<[criterios |-> criterios,
                                  pesos |-> r.vetor["criterios"], i |-> 1]>>
                   /\ UNCHANGED retorno
    /\ ultimo' = <<>>
    /\ visitados' = {}
    /\ UNCHANGED <<Config, Aux, prioridades_globais, primeiro>>

(* one iteration of the loop of global_priority_vector, lines 199-208 *)
GlobalPriorityVector ==
    /\ pc = "global"
    /\ pilha # <<>>
    /\ Topo.i <= Len(Topo.criterios)
    /\ LET criterio == Topo.criterios[Topo.i]
           idx == Index(Topo.criterios, criterio)
           resto == [pilha EXCEPT ![Len(pilha)].i = Proximo(Topo.i)]
       IN  IF idx > Len(Topo.pesos)
           THEN /\ pc' = "erro"
                /\ retorno' = [erro |-> "IndexError"]
                /\ UNCHANGED <<pilha, prioridades_globais, ultimo, visitados>>
           ELSE IF criterio \notin DOMAIN prioridades
           THEN /\ pc' = "erro"
                /\ retorno' = [erro |-> "KeyError"]
                /\ UNCHANGED <<pilha, prioridades_globais, ultimo, visitados>>
           ELSE LET peso == Topo.pesos[idx]
                    prioridade_global ==
                        RoundVec([j \in 1..Len(prioridades[criterio]) |->
                                    RMul(peso, prioridades[criterio][j])], precisao)
                IN  /\ ultimo' = [criterios |-> Topo.criterios, pesos |-> Topo.pesos,
                                  i |-> Topo.i, peso |-> peso]
                    /\ visitados' = visitados \cup {criterio}
                    /\ IF criterio \in DOMAIN sub_criterios
                       THEN /\ pilha' = Append(resto,
                                    [criterios |-> sub_criterios[criterio],
                                     pesos |-> prioridade_global, i |-> 1])
                            /\ UNCHANGED prioridades_globais
                       ELSE /\ pilha' = resto
                            /\ prioridades_globais' =
                                    Append(prioridades_globais, prioridade_global)
                    /\ UNCHANGED <<pc, retorno>>
    /\ UNCHANGED <<Config, Aux, prioridades, usado, chamadas, primeiro>>

(* the loop of line 199 is exhausted: the call returns *)
GlobalReturn ==
    /\ pc = "global"
    /\ pilha # <<>>
    /\ Topo.i > Len(Topo.criterios)
    /\ pilha' = SubSeq(pilha, 1, Len(pilha) - 1)
    /\ pc' = IF Len(pilha) = 1 THEN "soma" ELSE "global"
    /\ UNCHANGED <<Config, Aux, prioridades_globais, prioridades, usado, ultimo,
                   visitados, chamadas, retorno, primeiro>>

RECURSIVE VecSum(_, _)
VecSum(vs, n) ==
    IF vs = <<>> THEN [j \in 1..n |-> Zero]
    ELSE LET r == VecSum(Tail(vs), n)
         IN  [j \in 1..n |-> RAdd(Head(vs)[j], r[j])]

Min(a, b) == IF a < b THEN a ELSE b

(* lines 225-228: np.array of vectors of different lengths raises ValueError;
   of no vector at all it sums to a scalar, which zip cannot iterate *)
Soma ==
    /\ pc = "soma"
    /\ IF prioridades_globais = <<>>
       THEN /\ pc' = "erro"
            /\ retorno' = [erro |-> "TypeError"]
            /\ UNCHANGED primeiro
       ELSE IF \E i \in 1..Len(prioridades_globais) :
                  Len(prioridades_globais[i]) # Len(prioridades_globais[1])
       THEN /\ pc' = "erro"
            /\ retorno' = [erro |-> "ValueError"]
            /\ UNCHANGED primeiro
       ELSE LET n == Len(prioridades_globais[1])
                soma == RoundVec(VecSum(prioridades_globais, n), precisao)
                r == [erro |-> "",
                      valor |-> [j \in 1..Min(n, Len(alternativas)) |->
                                    <<alternativas[j], soma[j]>>]]
            IN  /\ pc' = "fim"
                /\ retorno' = r
                /\ primeiro' = IF chamadas = 1 THEN r ELSE primeiro
    /\ UNCHANGED <<Config, Aux, prioridades_globais, prioridades, usado, pilha,
                   ultimo, visitados, chamadas>>

(* resultado() has returned and the caller calls it again on the same instance *)
NovaChamada ==
    /\ pc = "fim"
    /\ chamadas < MaxChamadas
    /\ pc' = "inicio"
    /\ pilha' = <<>>
    /\ UNCHANGED <<Config, Aux, prioridades_globais, prioridades, usado, ultimo,
                   visitados, chamadas, retorno, primeiro>>

Next ==
    \/ LocalPriorityVector
    \/ GlobalPriorityVector
    \/ GlobalReturn
    \/ Soma
    \/ NovaChamada

Spec == Init /\ [][Next]_vars

(* a call of global_priority_vector that is running goes on running *)
FairSpec == Spec /\ WF_vars(GlobalPriorityVector) /\ WF_vars(GlobalReturn)

----------------------------------------------------------------------------
(* AHP.consistencia called on one matrix *)

MatrizesCons ==
    {MatrizConst(n, n, c) : n \in 1..MaxOrdem, c \in {1, 2}}
    \cup UNION {{MatrizTri(n, d, u) : n \in 1..MaxOrdem, d \in {1, 2}} : u \in {0, 1, 3}}
    \cup [1..2 -> [1..2 -> {1, 2, 3}]]
    \cup {m \in {MatrizConst(n, k, 1) : n, k \in 1..4} : ~IsSquare(m)}

InitCons ==
    /\ pc = "consistencia"
    /\ matriz \in MatrizesCons
    /\ metodo = "" /\ precisao = 0 /\ alternativas = <<>> /\ criterios = <<>>
    /\ sub_criterios = <<>> /\ matrizes_preferencias = <<>>
    /\ prioridades_globais = <<>> /\ prioridades = <<>> /\ usado = <<>>
    /\ pilha = <<>> /\ ultimo = <<>> /\ visitados = {} /\ chamadas = 0
    /\ retorno = <<>> /\ primeiro = <<>> /\ interacao = 0
    /\ autovetor_anterior = None /\ quadrados = 0 /\ inicial = <<>>

Consistencia ==
    /\ pc = "consistencia"
    /\ retorno' = consistencia(matriz)
    /\ pc' = "fim"
    /\ UNCHANGED <<Config, Aux, prioridades_globais, prioridades, usado, pilha,
                   ultimo, visitados, chamadas, primeiro>>

NextCons == Consistencia

SpecCons == InitCons /\ [][NextCons]_vars

----------------------------------------------------------------------------
(* AHP.autovalor called with autovetor_anterior=None, one call per step *)

MatrizesPow == UNION {[1..n -> [1..n -> {0, 1}]] : n \in 1..2}

InitPow ==
    /\ pc = "autovalor"
    /\ matriz \in MatrizesPow
    /\ precisao \in 0..MaxPrecisao
    /\ interacao \in 1..MaxInteracao \cup {DefaultInteracao}
    /\ autovetor_anterior = None
    /\ quadrados = 0
    /\ inicial = [matriz |-> matriz, interacao |-> interacao]
    /\ metodo = "" /\ alternativas = <<>> /\ criterios = <<>>
    /\ sub_criterios = <<>> /\ matrizes_preferencias = <<>>
    /\ prioridades_globais = <<>> /\ prioridades = <<>> /\ usado = <<>>
    /\ pilha = <<>> /\ ultimo = <<>> /\ visitados = {} /\ chamadas = 0
    /\ retorno = <<>> /\ primeiro = <<>>

Autovalor ==
    /\ pc = "autovalor"
    /\ LET r == autovalor_chamada(matriz, precisao, interacao, autovetor_anterior)
       IN  /\ quadrados' = IF IsSquare(matriz) THEN quadrados + 1 ELSE quadrados
           /\ IF r.fim
              THEN /\ pc' = "fim"
                   /\ retorno' = [erro |-> r.erro, valor |-> r.valor]
                   /\ UNCHANGED <<matriz, interacao, autovetor_anterior>>
              ELSE /\ matriz' = r.matriz
                   /\ interacao' = r.interacao
                   /\ autovetor_anterior' = r.autovetor_anterior
                   /\ UNCHANGED <<pc, retorno>>
    /\ UNCHANGED <<metodo, precisao, alternativas, criterios, sub_criterios,
                   matrizes_preferencias, prioridades_globais, prioridades, usado,
                   pilha, ultimo, visitados, chamadas, primeiro, inicial>>

NextPow == Autovalor

(* a pending call of autovalor is executed: it squares its matrix *)
Quadra == pc = "autovalor" /\ quadrados' = quadrados + 1

SpecPow == InitPow /\ [][NextPow]_vars /\ WF_quadrados(Quadra)

----------------------------------------------------------------------------
(* Properties *)

Abs(x) == IF x < 0 THEN -x ELSE x

SemRepetidos(l) == \A i, j \in 1..Len(l) : l[i] = l[j] => i = j

(* no list of the hierarchy names an identifier twice *)
SemDuplicados ==
    /\ SemRepetidos(criterios)
    /\ \A c \in DOMAIN sub_criterios : SemRepetidos(sub_criterios[c])

TodasBemDimensionadas ==
    MalDimensionadas(matrizes_preferencias, criterios, sub_criterios) = {}

(* a node is a leaf when it has no sub-criteria: no entry, or an empty one *)
Folha(c) == c \notin DOMAIN sub_criterios \/ sub_criterios[c] = <<>>

(* C1: at the start of every resultado() call the accumulator is empty, and a
   later call on the same instance returns what the first call returned *)
C1_AcumuladorIsolado ==
    /\ pc = "inicio" => prioridades_globais = <<>>
    /\ (pc = "fim" /\ primeiro # <<>>) => retorno = primeiro

(* the contributions one run must accumulate: each leaf's local vector times
   the weight at the leaf's own position, in visiting order *)
RECURSIVE Contribuicoes(_, _)
Contribuicoes(nodes, weights) ==
    IF nodes = <<>> THEN <<>>
    ELSE LET c == nodes[Len(nodes)]
             w == weights[Len(nodes)]
             v == RoundVec([j \in 1..Len(prioridades[c]) |->
                             RMul(w, prioridades[c][j])], precisao)
             antes == Contribuicoes(SubSeq(nodes, 1, Len(nodes) - 1), weights)
         IN  IF Folha(c) THEN Append(antes, v)
             ELSE antes \o Contribuicoes(sub_criterios[c], v)

(* the number of vector entries rounded while the nodes are processed *)
RECURSIVE NumArredondados(_)
NumArredondados(nodes) ==
    IF nodes = <<>> THEN 0
    ELSE LET c == Head(nodes)
         IN  Len(prioridades[c])
             + (IF c \in DOMAIN sub_criterios
                THEN NumArredondados(sub_criterios[c]) ELSE 0)
             + NumArredondados(Tail(nodes))

SomaUm(v) ==
    /\ \A j \in 1..Len(v) : ~IsNaN(v[j])
    /\ SumSeq([j \in 1..Len(v) |-> v[j][1]]) = Escala(precisao)

(* C2: in a correctly dimensioned tree whose weight vectors all sum to 1, the
   scores returned by one run sum to 1, up to half a unit of the last decimal
   for each entry rounded on the way *)
C2_ConservacaoDeMassa ==
    (/\ pc = "fim"
     /\ chamadas = 1
     /\ TodasBemDimensionadas
     /\ SemDuplicados
     /\ \A k \in DOMAIN prioridades : SomaUm(prioridades[k]))
    => 2 * Abs(SumSeq([j \in 1..Len(retorno.valor) |-> retorno.valor[j][2][1]])
               - Escala(precisao))
          <= NumArredondados(criterios)

(* C3: a selector other than 'aproximado' and 'geometrico' applies the power
   iteration to a matrix with at least 2 rows and at least 2 columns, and the
   normalized-column mean to every other matrix *)
C3_SelecaoDoMetodo ==
    \A k \in DOMAIN usado :
        metodo \notin {"aproximado", "geometrico"} =>
            usado[k] = IF Rows(matrizes_preferencias[k]) >= 2
                          /\ Cols(matrizes_preferencias[k]) >= 2
                       THEN "autovalor" ELSE "aproximado"

(* C4: when a supplied matrix is not square, or not of the size of its node,
   resultado() does not return a ranking *)
C4_ErroDeDimensao == ~TodasBemDimensionadas => pc # "fim"

(* the Random Index table of the specification *)
TabelaRI ==
    (3 :> <<52, 100>>) @@ (4 :> <<89, 100>>) @@ (5 :> <<111, 100>>) @@
    (6 :> <<125, 100>>) @@ (7 :> <<135, 100>>) @@ (8 :> <<140, 100>>) @@
    (9 :> <<145, 100>>) @@ (10 :> <<149, 100>>) @@ (11 :> <<152, 100>>) @@
    (12 :> <<154, 100>>) @@ (13 :> <<156, 100>>) @@ (14 :> <<158, 100>>) @@
    (15 :> <<159, 100>>)

(* C5: consistencia on a square matrix of order n > 15 raises KeyError; for n
   in 3..15 it returns CI = (lambda_max - n)/(n - 1) and CR = CI / RI(n) *)
C5_IndiceDeConsistencia ==
    (pc = "fim" /\ IsSquare(matriz)) =>
        LET n == Len(matriz)
            ci == RDiv(RSub(retorno.lambda_max, <<n, 1>>), <<n - 1, 1>>)
        IN  /\ n > 15 => retorno.erro = "KeyError"
            /\ n \in 3..15 =>
                /\ retorno.erro = ""
                /\ retorno.lambda_max = eigvals_max(matriz)
                /\ REq(retorno.consist_index, ci)
                /\ REq(retorno.consist_ratio, RDiv(ci, TabelaRI[n]))

C5_Ordem16 ==
    /\ pc = "fim"
    /\ IsSquare(matriz)
    /\ Len(matriz) = 16
    /\ retorno.erro = "KeyError"

(* C6: consistencia returns exactly (0, 0, 0) for every matrix of order 1 or 2
   and looks nothing up in the Random Index table *)
C6_OrdemAte2 ==
    (pc = "fim" /\ IsSquare(matriz) /\ Len(matriz) <= 2) =>
        retorno = [erro |-> "", lambda_max |-> Zero, consist_index |-> Zero,
                   consist_ratio |-> Zero, ri |-> 0]

C6_DoisPorDois ==
    /\ pc = "fim"
    /\ matriz = <<<<1, 3>>, <<2, 1>>>>
    /\ retorno.erro = ""
    /\ retorno.consist_ratio = Zero

(* C7: after one run over a correctly dimensioned hierarchy the accumulator
   holds one contribution for each leaf criterion, a leaf being a criterion
   whose sub_criterios entry is absent or empty, and none for internal nodes *)
C7_UmaContribuicaoPorFolha ==
    (/\ pc \in {"soma", "fim"}
     /\ chamadas = 1
     /\ TodasBemDimensionadas
     /\ SemDuplicados)
    => prioridades_globais = Contribuicoes(criterios, prioridades["criterios"])

(* C8: the node at position i of the list is multiplied by the weight at
   position i *)
C8_PesoPorPosicao ==
    (ultimo # <<>> /\ ultimo.i <= Len(ultimo.pesos)) =>
        ultimo.peso = ultimo.pesos[ultimo.i]

(* the levels of calls the declared hierarchy asks for: one for the list, one
   more below each node that has a sub_criterios entry *)
RECURSIVE Niveis(_)
Niveis(nodes) ==
    1 + Max({0} \cup {Niveis(sub_criterios[c]) :
                        c \in Range(nodes) \cap DOMAIN sub_criterios})

C9_Seguro ==
    /\ Len(pilha) <= Niveis(criterios)
    /\ pc = "soma" => visitados = NosDe(criterios, sub_criterios)
    /\ (pc = "erro" /\ TodasBemDimensionadas) => retorno.erro = "TypeError"

C9_Desce ==
    (pilha # <<>> /\ Len(pilha') = Len(pilha) + 1) =>
        /\ Topo.criterios[Topo.i] \in DOMAIN sub_criterios
        /\ pilha'[Len(pilha')].criterios = sub_criterios[Topo.criterios[Topo.i]]

(* C9: the aggregation of an acyclic hierarchy recurses only into the children
   of the current node, never deeper than the hierarchy, and the top-level call
   ends, having visited every node reachable from the top-level criteria when
   it returns *)
C9_Termina ==
    /\ []C9_Seguro
    /\ [][C9_Desce]_vars
    /\ (pc = "global") ~> (pc \in {"soma", "erro"})

C9_TresNiveis ==
    /\ pc = "soma"
    /\ chamadas = 1
    /\ Niveis(criterios) = 3
    /\ visitados = {"c1", "c2", "c3"}

C10_Seguro ==
    /\ quadrados <= inicial.interacao
    /\ pc = "autovalor" => interacao = inicial.interacao - quadrados
    /\ pc = "fim" => quadrados >= 1

(* the estimate of the running call and whether it has converged *)
Atual == autovetor_atual(matrix_power2(matriz))
Convergiu == ~NpAny(diferenca(Atual, autovetor_anterior, precisao))

C10_Passo ==
    pc = "autovalor" =>
        /\ pc' = "fim" <=> (Convergiu \/ quadrados' = inicial.interacao)
        /\ pc' = "fim" => retorno' = [erro |-> "", valor |-> RoundVec(Atual, precisao)]
        /\ pc' # "fim" => /\ matriz' = matrix_power2(matriz)
                          /\ autovetor_anterior' = Atual

(* C10: autovalor squares the matrix at most `interacao` times, returns the
   rounded estimate of the first step whose rounded difference is all zero, or
   of the last step when the budget runs out, and always terminates *)
C10_Orcamento == []C10_Seguro /\ [][C10_Passo]_vars /\ <>(pc = "fim")

C10_OrcamentoEsgotado ==
    /\ pc = "fim"
    /\ inicial.interacao = DefaultInteracao
    /\ quadrados = DefaultInteracao
    /\ \E i \in 1..Len(retorno.valor) : IsNaN(retorno.valor[i])

====
